---- MODULE Spec2Model ----
(***************************************************************************)
(* Model of the analysis engine of docs/quickstart/telemetry-report.py:    *)
(* parse_jsonl, get_price, analyze_tokens, analyze_sizes, analyze_daily.   *)
(*                                                                         *)
(* Conventions                                                             *)
(*  - a log record (a Python dict) is a TLA+ record holding exactly the    *)
(*    keys that are present; rec.get(k, d) is Get(rec, k, d);              *)
(*  - a Python dict built by the code (tools, status_counts, models) is a  *)
(*    function whose DOMAIN is the set of keys;                            *)
(*  - text that the code slices or searches (model identifiers, raw log    *)
(*    text) is a sequence of one-character strings;                        *)
(*  - a float is kept as the exact rational it stands for: a compression   *)
(*    ratio comp/orig is the pair <<comp, orig>>, money is counted in      *)
(*    millionths of a dollar (tokens / 1e6 * price = tokens * price        *)
(*    micro-dollars), prices are whole dollars per million tokens;         *)
(*  - None and "not computed yet" are the one-field records None, NotRun. *)
(***************************************************************************)
EXTENDS Integers, Sequences, FiniteSets, TLC

VARIABLES
    pc,               \* position of main(): what has run so far
    LIVE_PRICES,      \* module global set once by fetch_prices()
    raw,              \* raw text handed to parse_jsonl
    parsed,           \* outcome of parse_jsonl(raw)
    telemetry_raw,    \* request-log entries
    compression_raw,  \* compression-log entries
    token_stats,      \* analyze_tokens(telemetry_raw)
    size_stats,       \* analyze_sizes(compression_raw)
    daily_stats       \* analyze_daily(telemetry_raw)

vars == <<pc, LIVE_PRICES, raw, parsed, telemetry_raw, compression_raw,
          token_stats, size_stats, daily_stats>>

None == [none |-> TRUE]
NotRun == [not_run |-> TRUE]

(***************************************************************************)
(* Generic helpers                                                         *)
(***************************************************************************)
Get(rec, key, default) == IF key \in DOMAIN rec THEN rec[key] ELSE default

SeqsUpTo(S, n) == UNION {[1..k -> S] : k \in 0..n}

Repeat(r, n) == [i \in 1..n |-> r]

RECURSIVE SumSeq(_)
SumSeq(s) == IF s = <<>> THEN 0 ELSE Head(s) + SumSeq(Tail(s))

\* [x for x in s if Keep(x)]
FilterSeq(s, Keep(_)) == SelectSeq(s, Keep)

\* [F(x) for x in s]
MapSeq(s, F(_)) == [i \in 1..Len(s) |-> F(s[i])]

\* text as a sequence of characters
IsSubstring(key, text) ==
    \E i \in 0..(Len(text) - Len(key)) : SubSeq(text, i + 1, i + Len(key)) = key

(***************************************************************************)
(* Pricing resolver                                                        *)
(***************************************************************************)
Opus == <<"o", "p", "u", "s">>
Sonnet == <<"s", "o", "n", "n", "e", "t">>
Haiku == <<"h", "a", "i", "k", "u">>
Claude == <<"c", "l", "a", "u", "d", "e">>
Unknown == <<"u", "n", "k", "n", "o", "w", "n">>
EmptyStr == <<>>

\* "claude-haiku-4-5-20251001", the identifier analyze_sizes prices with
HaikuModelId ==
    Claude \o <<"-">> \o Haiku \o <<"-", "4", "-", "5", "-">>
           \o <<"2", "0", "2", "5", "1", "0", "0", "1">>
OpusModelId == Claude \o <<"-">> \o Opus \o <<"-", "4", "-", "5">>
SonnetModelId == Claude \o <<"-">> \o Sonnet \o <<"-", "4">>
OtherModelId == <<"g", "p", "t">>

\* FALLBACK_PRICES, in the dict's iteration order
FALLBACK_PRICES ==
    << [key |-> Opus, price |-> 15],
       [key |-> Sonnet, price |-> 3],
       [key |-> Haiku, price |-> 1] >>

DefaultPrice == 3

\* what fetch_prices() can return: {} on any failure, otherwise a table of
\* the catalog's "claude" entries that carry an input cost
PriceTables ==
    { <<>>,
      (HaikuModelId :> 2) @@ (OpusModelId :> 5) }

RECURSIVE FallbackScan(_, _)
FallbackScan(model, i) ==
    IF i > Len(FALLBACK_PRICES) THEN DefaultPrice
    ELSE IF IsSubstring(FALLBACK_PRICES[i].key, model) THEN FALLBACK_PRICES[i].price
    ELSE FallbackScan(model, i + 1)

get_price(model) ==
    IF DOMAIN LIVE_PRICES # {} /\ model \in DOMAIN LIVE_PRICES
    THEN LIVE_PRICES[model]
    ELSE FallbackScan(model, 1)

(***************************************************************************)
(* analyze_sizes                                                           *)
(***************************************************************************)
Ratio(comp, orig) == <<comp, orig>>

\* ratio >= 0.9 for ratio = comp / orig, orig # 0
RatioAtLeastNineTenths(r) ==
    IF r[2] > 0 THEN 10 * r[1] >= 9 * r[2] ELSE 10 * r[1] <= 9 * r[2]

EmptySizeStats ==
    [ all_sizes |-> <<>>, compressed_sizes |-> <<>>, passthrough_sizes |-> <<>>,
      ratios |-> <<>>, tools |-> <<>>, status_counts |-> <<>>,
      current_threshold |-> 0, thresholds |-> <<>>, sweet_spot |-> 0,
      compression_cost |-> 0 ]

NewToolStats(name) ==
    [name |-> name, total |-> 0, compressed |-> 0, orig_bytes |-> 0, saved_bytes |-> 0]

\* as AccumulateRecord, but a ratio is kept only for a compression that shrank
AccumulateRecordMutant(stats, rec) ==
    LET orig == Get(rec, "original_bytes", 0)
        status == Get(rec, "status", "")
        tool == Get(rec, "tool_name", "unknown")
        isComp == (status = "compressed")
        comp == Get(rec, "compressed_bytes", orig)
        t0 == IF tool \in DOMAIN stats.tools THEN stats.tools[tool]
              ELSE NewToolStats(tool)
        t1 == [t0 EXCEPT !.total = @ + 1, !.orig_bytes = @ + orig]
        t2 == IF isComp
              THEN [t1 EXCEPT !.compressed = @ + 1, !.saved_bytes = @ + (orig - comp)]
              ELSE t1
    IN [stats EXCEPT
          !.all_sizes = Append(@, orig),
          !.status_counts = (status :> (Get(@, status, 0) + 1)) @@ @,
          !.tools = (tool :> t2) @@ @,
          !.compressed_sizes = IF isComp THEN Append(@, orig) ELSE @,
          !.ratios = IF isComp /\ comp < orig THEN Append(@, Ratio(comp, orig)) ELSE @,
          !.passthrough_sizes = IF isComp THEN @ ELSE Append(@, orig)]

\* body of the first loop over entries, for one record with orig # 0
AccumulateRecord(stats, rec) ==
    LET orig == Get(rec, "original_bytes", 0)
        status == Get(rec, "status", "")
        tool == Get(rec, "tool_name", "unknown")
        isComp == (status = "compressed")
        comp == Get(rec, "compressed_bytes", orig)
        t0 == IF tool \in DOMAIN stats.tools THEN stats.tools[tool]
              ELSE NewToolStats(tool)
        t1 == [t0 EXCEPT !.total = @ + 1, !.orig_bytes = @ + orig]
        t2 == IF isComp
              THEN [t1 EXCEPT !.compressed = @ + 1, !.saved_bytes = @ + (orig - comp)]
              ELSE t1
    IN [stats EXCEPT
          !.all_sizes = Append(@, orig),
          !.status_counts = (status :> (Get(@, status, 0) + 1)) @@ @,
          !.tools = (tool :> t2) @@ @,
          !.compressed_sizes = IF isComp THEN Append(@, orig) ELSE @,
          !.ratios = IF isComp /\ orig > 0 THEN Append(@, Ratio(comp, orig)) ELSE @,
          !.passthrough_sizes = IF isComp THEN @ ELSE Append(@, orig)]

RECURSIVE ScanRecords(_, _, _)
ScanRecords(entries, i, stats) ==
    IF i > Len(entries) THEN stats
    ELSE IF Get(entries[i], "original_bytes", 0) = 0
         THEN ScanRecords(entries, i + 1, stats)
         ELSE ScanRecords(entries, i + 1, AccumulateRecord(stats, entries[i]))

\* for rec in reversed(entries): first min_threshold > 0
RECURSIVE CurrentThresholdFirstForward(_, _)
CurrentThresholdFirstForward(entries, i) ==
    IF i > Len(entries) THEN 0
    ELSE IF Get(entries[i], "min_threshold", 0) > 0
         THEN Get(entries[i], "min_threshold", 0)
         ELSE CurrentThresholdFirstForward(entries, i + 1)

RECURSIVE CurrentThresholdFrom(_, _)
CurrentThresholdFrom(entries, i) ==
    IF i < 1 THEN 0
    ELSE IF Get(entries[i], "min_threshold", 0) > 0
         THEN Get(entries[i], "min_threshold", 0)
         ELSE CurrentThresholdFrom(entries, i - 1)

CurrentThresholdMutant(entries) == CurrentThresholdFirstForward(entries, 1)

CurrentThreshold(entries) == CurrentThresholdFrom(entries, Len(entries))

IsCompressedSample(rec) ==
    ~(Get(rec, "original_bytes", 0) = 0 \/ Get(rec, "status", "") # "compressed")

Sample(rec) ==
    LET orig == Get(rec, "original_bytes", 0)
        comp == Get(rec, "compressed_bytes", orig)
    IN [orig |-> orig, comp |-> comp, ratio |-> Ratio(comp, orig)]

CompressedData(entries) == MapSeq(FilterSeq(entries, IsCompressedSample), Sample)

MinSamples == 10

EnoughSamplesMutant(compressed_data) == Len(compressed_data) > MinSamples

EnoughSamples(compressed_data) == Len(compressed_data) >= MinSamples

ThresholdCandidates == <<256, 512, 768, 1024, 1536, 2048, 3072, 4096>>

EligibleMutant(compressed_data, threshold) ==
    LET Keep(c) == c.orig <= threshold IN FilterSeq(compressed_data, Keep)

Eligible(compressed_data, threshold) ==
    LET Keep(c) == c.orig >= threshold IN FilterSeq(compressed_data, Keep)

IsWastedMutant(c) == RatioAtLeastNineTenths(c.ratio) /\ 10 * c.comp # 9 * c.orig

IsWasted(c) == RatioAtLeastNineTenths(c.ratio)

SkipThresholdMutant(eligible) == FALSE

SkipThreshold(eligible) == eligible = <<>>

\* statistics.mean over a non-empty list of ratios, kept unevaluated
Mean(values) == [of |-> values, n |-> Len(values)]

PremiumRate == 15

\* one ThresholdResult, from the eligible samples of one threshold
MakeThresholdResult(threshold, eligible) ==
    LET NotWasted(c) == ~IsWasted(c)
        Saving(c) == c.orig - c.comp
        OrigOf(c) == c.orig
        RatioOf(c) == c.ratio
        wasted == Len(FilterSeq(eligible, IsWasted))
        saved == SumSeq(MapSeq(FilterSeq(eligible, NotWasted), Saving))
        api_input == SumSeq(MapSeq(eligible, OrigOf))
        \* api_cost and main_savings share the factor 1/4/1e6
        api_cost == api_input * get_price(HaikuModelId)
        main_savings == saved * PremiumRate
    IN [ threshold |-> threshold, calls |-> Len(eligible),
         ratio |-> Mean(MapSeq(eligible, RatioOf)),
         saved |-> saved, wasted |-> wasted,
         roi |-> IF api_cost > 0 THEN <<main_savings, api_cost>> ELSE <<0, 1>> ]

\* the sweep: acc = [thresholds, total_comp_input]
RECURSIVE Sweep(_, _, _, _)
Sweep(compressed_data, current_threshold, i, acc) ==
    IF i > Len(ThresholdCandidates) THEN acc
    ELSE LET threshold == ThresholdCandidates[i]
             eligible == Eligible(compressed_data, threshold)
             OrigOf(c) == c.orig
         IN IF SkipThreshold(eligible)
            THEN Sweep(compressed_data, current_threshold, i + 1, acc)
            ELSE Sweep(compressed_data, current_threshold, i + 1,
                       [ thresholds |->
                            Append(acc.thresholds, MakeThresholdResult(threshold, eligible)),
                         total_comp_input |->
                            IF threshold = current_threshold
                            THEN SumSeq(MapSeq(eligible, OrigOf))
                            ELSE acc.total_comp_input ])

RECURSIVE SweetSpotLast(_, _)
SweetSpotLast(thresholds, i) ==
    IF i < 1 THEN 0
    ELSE IF thresholds[i].wasted = 0 THEN thresholds[i].threshold
    ELSE SweetSpotLast(thresholds, i - 1)

RECURSIVE SweetSpotFrom(_, _)
SweetSpotFrom(thresholds, i) ==
    IF i > Len(thresholds) THEN 0
    ELSE IF thresholds[i].wasted = 0 THEN thresholds[i].threshold
    ELSE SweetSpotFrom(thresholds, i + 1)

SweetSpotMutant(thresholds) == SweetSpotLast(thresholds, Len(thresholds))

SweetSpot(thresholds) == SweetSpotFrom(thresholds, 1)

\* (total_comp_input / 4) / 1e6 * price, in quarters of a micro-dollar
CompressionCost(total_comp_input) ==
    IF total_comp_input # 0 THEN total_comp_input * get_price(HaikuModelId) ELSE 0

SizesAbsent(entries, scanned) == entries = <<>> \/ scanned.all_sizes = <<>>

analyze_sizes(entries) ==
    LET scanned == ScanRecords(entries, 1, EmptySizeStats)
        current == CurrentThreshold(entries)
        compressed_data == CompressedData(entries)
        swept == Sweep(compressed_data, current, 1,
                       [thresholds |-> <<>>, total_comp_input |-> 0])
    IN IF SizesAbsent(entries, scanned) THEN None
       ELSE IF EnoughSamples(compressed_data)
       THEN [scanned EXCEPT
               !.current_threshold = current,
               !.thresholds = swept.thresholds,
               !.sweet_spot = SweetSpot(swept.thresholds),
               !.compression_cost = CompressionCost(swept.total_comp_input)]
       ELSE [scanned EXCEPT !.current_threshold = current]

(***************************************************************************)
(* Compression-log inputs.  A log is two runs of a repeated record         *)
(* followed by a short arbitrary tail, so that the 10-sample gate of the   *)
(* threshold analysis is crossed with few distinct logs.                   *)
(***************************************************************************)
BlockLen == 6
MaxTail == 2

SmallGood ==
    [tool_name |-> "Bash", status |-> "compressed", original_bytes |-> 200,
     compressed_bytes |-> 100, min_threshold |-> 0]
BigWasted ==
    [tool_name |-> "Bash", status |-> "compressed", original_bytes |-> 1000,
     compressed_bytes |-> 990]
EdgeWasted ==
    [status |-> "compressed", original_bytes |-> 1000, compressed_bytes |-> 900,
     min_threshold |-> 512]
HugeGood ==
    [tool_name |-> "Read", status |-> "compressed", original_bytes |-> 4096,
     compressed_bytes |-> 1024, min_threshold |-> 256]
NoCompField ==
    [tool_name |-> "Read", status |-> "compressed", original_bytes |-> 2000]
Passthrough ==
    [tool_name |-> "Bash", status |-> "passthrough", original_bytes |-> 3000,
     min_threshold |-> 1024]
ZeroBytes ==
    [tool_name |-> "Bash", status |-> "compressed", original_bytes |-> 0,
     compressed_bytes |-> 0, min_threshold |-> 2048]
NoStatus ==
    [tool_name |-> "Read", original_bytes |-> 700, compressed_bytes |-> 10]
MidGood ==
    [tool_name |-> "Read", status |-> "compressed", original_bytes |-> 600,
     compressed_bytes |-> 300, min_threshold |-> 300]
NoBytes ==
    [status |-> "compressed", compressed_bytes |-> 5]

BlockRecords == {SmallGood, BigWasted, HugeGood, MidGood}

TailRecords == {EdgeWasted, NoCompField, Passthrough, ZeroBytes, NoStatus, NoBytes}

BlockSizes == {0, BlockLen - 2, BlockLen}

CompressionLogs ==
    { Repeat(r1, n1) \o Repeat(r2, n2) \o tail :
        r1 \in BlockRecords, n1 \in BlockSizes,
        r2 \in BlockRecords, n2 \in BlockSizes,
        tail \in SeqsUpTo(TailRecords, MaxTail) }

(***************************************************************************)
(* analyze_tokens                                                          *)
(***************************************************************************)
MessagesPath == "/v1/messages"

IsMessage(e) == Get(e, "path", "") = MessagesPath

\* msgs = [e for e in entries if e.get("path") == "/v1/messages"]
Msgs(entries) == FilterSeq(entries, IsMessage)

CompressionUsed(m) == Get(m, "compression_used", FALSE)

CompressedMsgs(msgs) == FilterSeq(msgs, CompressionUsed)

PassthroughMsgsMutant(msgs) == msgs

PassthroughMsgs(msgs) ==
    LET NotUsed(m) == ~CompressionUsed(m) IN FilterSeq(msgs, NotUsed)

\* tokens / 1e6 * price dollars, in micro-dollars
Money(tokens, price) == tokens * price

NewModelStats(name) ==
    [name |-> name, count |-> 0, orig_tokens |-> 0, saved_tokens |-> 0, money_saved |-> 0]

\* first phase of the per-model breakdown: one step of "for m in msgs"
RECURSIVE GroupByModel(_, _, _)
GroupByModel(msgs, i, models) ==
    IF i > Len(msgs) THEN models
    ELSE LET m == msgs[i]
             model == Get(m, "model", Unknown)
             s == IF model \in DOMAIN models THEN models[model] ELSE NewModelStats(model)
             s1 == [s EXCEPT !.count = @ + 1,
                             !.orig_tokens = @ + Get(m, "original_tokens", 0),
                             !.saved_tokens = @ + Get(m, "tokens_saved", 0)]
         IN GroupByModel(msgs, i + 1, (model :> s1) @@ models)

\* second phase: for s in models.values(): s.money_saved = ...
PriceModels(models) ==
    [k \in DOMAIN models |->
        [models[k] EXCEPT !.money_saved = Money(models[k].saved_tokens, get_price(models[k].name))]]

TokensAbsentMutant(entries, msgs) == entries = <<>>

TokensAbsent(entries, msgs) == msgs = <<>>

analyze_tokens(entries) ==
    LET msgs == Msgs(entries)
        compressed == CompressedMsgs(msgs)
        passthrough == PassthroughMsgs(msgs)
        OrigTokens(m) == Get(m, "original_tokens", 0)
        TokensSaved(m) == Get(m, "tokens_saved", 0)
        Shadows(m) == Get(m, "shadow_refs_created", 0)
        Expands(m) == Get(m, "expand_calls_found", 0)
        MoneySaved(m) == Money(Get(m, "tokens_saved", 0), get_price(Get(m, "model", EmptyStr)))
    IN IF TokensAbsent(entries, msgs) THEN None
       ELSE [ total_requests |-> Len(msgs),
              compressed_requests |-> Len(compressed),
              passthrough_requests |-> Len(passthrough),
              total_orig_tokens |-> SumSeq(MapSeq(msgs, OrigTokens)),
              total_saved_tokens |-> SumSeq(MapSeq(compressed, TokensSaved)),
              total_shadows |-> SumSeq(MapSeq(compressed, Shadows)),
              total_expands |-> SumSeq(MapSeq(compressed, Expands)),
              total_money_saved |-> SumSeq(MapSeq(compressed, MoneySaved)),
              models |-> PriceModels(GroupByModel(msgs, 1, <<>>)) ]

(***************************************************************************)
(* analyze_daily                                                           *)
(***************************************************************************)
\* A timestamp is the sequence of its parts <<date, "T" time, rest>>; the
\* date and the time together are its first 19 characters; "" is <<>>.
Truncate19(ts) == SubSeq(ts, 1, 2)

\* str(datetime.fromisoformat(text).date())
DateOf(text) == text[1]

IndexOfDate(daily, date) ==
    IF \E i \in 1..Len(daily) : daily[i].date = date
    THEN CHOOSE i \in 1..Len(daily) : daily[i].date = date
    ELSE 0

\* daily_tokens as the list of its (date, total) items in insertion order
RECURSIVE GroupByDate(_, _, _)
GroupByDate(msgs, i, daily) ==
    IF i > Len(msgs) THEN daily
    ELSE LET m == msgs[i]
             ts == Get(m, "timestamp", <<>>)
         IN IF ts = <<>> THEN GroupByDate(msgs, i + 1, daily)
            ELSE LET date == DateOf(Truncate19(ts))
                     k == IndexOfDate(daily, date)
                     tokens == Get(m, "original_tokens", 0)
                 IN GroupByDate(msgs, i + 1,
                        IF k = 0 THEN Append(daily, [date |-> date, tokens |-> tokens])
                        ELSE [daily EXCEPT ![k].tokens = @ + tokens])

ActiveValuesMutant(daily) ==
    LET TokensOf(d) == d.tokens
        NonNegative(d) == d.tokens >= 0
    IN MapSeq(FilterSeq(daily, NonNegative), TokensOf)

\* [tokens for tokens in daily_tokens.values() if tokens > 0]
ActiveValues(daily) ==
    LET TokensOf(d) == d.tokens
        Active(d) == d.tokens > 0
    IN MapSeq(FilterSeq(daily, Active), TokensOf)

RECURSIVE Insert(_, _)
Insert(x, sorted) ==
    IF sorted = <<>> THEN <<x>>
    ELSE IF x < Head(sorted) THEN <<x>> \o sorted
    ELSE <<Head(sorted)>> \o Insert(x, Tail(sorted))

RECURSIVE Sorted(_)
Sorted(values) ==
    IF values = <<>> THEN <<>>
    ELSE Insert(values[Len(values)], Sorted(SubSeq(values, 1, Len(values) - 1)))

RECURSIVE MinOf(_)
MinOf(values) ==
    IF Len(values) = 1 THEN values[1]
    ELSE LET rest == MinOf(Tail(values))
         IN IF rest < Head(values) THEN rest ELSE Head(values)

RECURSIVE MaxOf(_)
MaxOf(values) ==
    IF Len(values) = 1 THEN values[1]
    ELSE LET rest == MaxOf(Tail(values))
         IN IF rest > Head(values) THEN rest ELSE Head(values)

\* statistics.mean, as the rational <<numerator, denominator>>
MeanOf(values) == <<SumSeq(values), Len(values)>>

\* statistics.median, as the rational <<numerator, denominator>>
MedianOf(values) ==
    LET data == Sorted(values)
        n == Len(data)
    IN IF n % 2 = 1 THEN <<data[(n \div 2) + 1], 1>>
       ELSE <<data[n \div 2] + data[(n \div 2) + 1], 2>>

analyze_daily(entries) ==
    LET msgs == Msgs(entries)
        daily_tokens == GroupByDate(msgs, 1, <<>>)
        active_values == ActiveValues(daily_tokens)
    IN IF msgs = <<>> THEN None
       ELSE IF active_values = <<>> THEN None
       ELSE [ active_days |-> Len(active_values),
              avg_tokens_per_day |-> MeanOf(active_values),
              min_tokens_per_day |-> MinOf(active_values),
              max_tokens_per_day |-> MaxOf(active_values),
              median_tokens_per_day |-> MedianOf(active_values),
              daily_values |-> Sorted(active_values) ]

(***************************************************************************)
(* Request-log inputs                                                      *)
(***************************************************************************)
MaxTelemetry == 3

Day1Morning == <<"2026-01-01", "T09:00:00", "Z">>
Day1Evening == <<"2026-01-01", "T23:59:59", ".250+02:00">>
Day2 == <<"2026-01-02", "T00:00:00", "Z">>
Day3 == <<"2026-01-03", "T12:30:00">>

OpusCompressed ==
    [path |-> MessagesPath, model |-> OpusModelId, compression_used |-> TRUE,
     original_tokens |-> 200, tokens_saved |-> 100, shadow_refs_created |-> 1,
     expand_calls_found |-> 0, timestamp |-> Day1Morning]
OpusPassthrough ==
    [path |-> MessagesPath, model |-> OpusModelId, compression_used |-> FALSE,
     original_tokens |-> 200, tokens_saved |-> 0, shadow_refs_created |-> 0,
     expand_calls_found |-> 0, timestamp |-> Day1Evening]
SonnetCompressed ==
    [path |-> MessagesPath, model |-> SonnetModelId, compression_used |-> TRUE,
     original_tokens |-> 300, tokens_saved |-> 50, shadow_refs_created |-> 2,
     expand_calls_found |-> 1, timestamp |-> Day2]
OtherPath ==
    [path |-> "/v1/models", model |-> OpusModelId, compression_used |-> TRUE,
     original_tokens |-> 7, tokens_saved |-> 3, timestamp |-> Day1Morning]
Bare ==
    [path |-> MessagesPath, compression_used |-> TRUE, tokens_saved |-> 10,
     timestamp |-> <<>>]
ZeroDay ==
    [path |-> MessagesPath, model |-> OtherModelId, original_tokens |-> 0,
     timestamp |-> Day3]
SonnetPassthroughSaving ==
    [path |-> MessagesPath, model |-> SonnetModelId, compression_used |-> FALSE,
     original_tokens |-> 100, tokens_saved |-> 40, timestamp |-> Day2]
NoPath ==
    [model |-> OpusModelId, compression_used |-> TRUE, original_tokens |-> 9,
     tokens_saved |-> 4, timestamp |-> Day3]

TelemetryRecords ==
    {OpusCompressed, OpusPassthrough, SonnetCompressed, OtherPath, Bare, ZeroDay,
     SonnetPassthroughSaving, NoPath}

TelemetryLogs == SeqsUpTo(TelemetryRecords, MaxTelemetry)

(***************************************************************************)
(* main(): the prices are fetched when the module is loaded, then the      *)
(* three aggregators run in turn on the two parsed logs.  A run has one    *)
(* of the two logs drawn from its input family and the other one empty.    *)
(***************************************************************************)
Init ==
    /\ pc = "import"
    /\ LIVE_PRICES = <<>>
    /\ raw = <<>>
    /\ parsed = NotRun
    /\ \/ telemetry_raw = <<>> /\ compression_raw \in CompressionLogs
       \/ telemetry_raw \in TelemetryLogs /\ compression_raw = <<>>
    /\ token_stats = NotRun
    /\ size_stats = NotRun
    /\ daily_stats = NotRun

\* LIVE_PRICES = fetch_prices()
FetchPrices ==
    /\ pc = "import"
    /\ LIVE_PRICES' \in PriceTables
    /\ pc' = "loaded"
    /\ UNCHANGED <<raw, parsed, telemetry_raw, compression_raw,
                   token_stats, size_stats, daily_stats>>

\* token_stats = analyze_tokens(telemetry_raw)
AnalyzeTokens ==
    /\ pc = "loaded"
    /\ token_stats' = analyze_tokens(telemetry_raw)
    /\ pc' = "tokens_done"
    /\ UNCHANGED <<LIVE_PRICES, raw, parsed, telemetry_raw, compression_raw,
                   size_stats, daily_stats>>

\* size_stats = analyze_sizes(compression_raw)
AnalyzeSizes ==
    /\ pc = "tokens_done"
    /\ size_stats' = analyze_sizes(compression_raw)
    /\ pc' = "sizes_done"
    /\ UNCHANGED <<LIVE_PRICES, raw, parsed, telemetry_raw, compression_raw,
                   token_stats, daily_stats>>

\* daily_stats = analyze_daily(telemetry_raw)
AnalyzeDaily ==
    /\ pc = "sizes_done"
    /\ daily_stats' = analyze_daily(telemetry_raw)
    /\ pc' = "done"
    /\ UNCHANGED <<LIVE_PRICES, raw, parsed, telemetry_raw, compression_raw,
                   token_stats, size_stats>>

Next == FetchPrices \/ AnalyzeTokens \/ AnalyzeSizes \/ AnalyzeDaily

Spec == Init /\ [][Next]_vars

(***************************************************************************)
(* parse_jsonl.  Raw text is a sequence of characters over a small         *)
(* alphabet: a digit, the array brackets, a blank, a newline and a         *)
(* character that starts no JSON value.  json.loads is modelled on that    *)
(* alphabet: numbers, arrays (necessarily of at most one element, for      *)
(* want of a comma), insignificant blanks.  It ends in one of three ways:  *)
(* a value, json.JSONDecodeError, or RecursionError when arrays nest       *)
(* deeper than the interpreter's recursion limit, which RecursionLimit     *)
(* scales down to the size of the texts explored.                          *)
(***************************************************************************)
MaxRaw == 5
RecursionLimit == 2

Alphabet == {"1", "[", "]", " ", "\n", "x"}

RawTexts == SeqsUpTo(Alphabet, MaxRaw)

\* str.splitlines()
RECURSIVE SplitLines(_)
SplitLines(text) ==
    IF text = <<>> THEN <<>>
    ELSE IF \E k \in 1..Len(text) : text[k] = "\n"
    THEN LET k == CHOOSE j \in 1..Len(text) :
                      text[j] = "\n" /\ \A h \in 1..(j - 1) : text[h] # "\n"
         IN <<SubSeq(text, 1, k - 1)>> \o SplitLines(SubSeq(text, k + 1, Len(text)))
    ELSE <<text>>

IsSpace(c) == c = " " \/ c = "\n"

\* str.strip()
RECURSIVE Strip(_)
Strip(line) ==
    IF line = <<>> THEN <<>>
    ELSE IF IsSpace(Head(line)) THEN Strip(Tail(line))
    ELSE IF IsSpace(line[Len(line)]) THEN Strip(SubSeq(line, 1, Len(line) - 1))
    ELSE line

\* index of the first character at or after i that is not whitespace
RECURSIVE SkipWhitespace(_, _)
SkipWhitespace(s, i) ==
    IF i <= Len(s) /\ IsSpace(s[i]) THEN SkipWhitespace(s, i + 1) ELSE i

\* index after the run of digits that starts at i
RECURSIVE EndOfDigits(_, _)
EndOfDigits(s, i) ==
    IF i <= Len(s) /\ s[i] = "1" THEN EndOfDigits(s, i + 1) ELSE i

\* int("1" * n)
RECURSIVE Repunit(_)
Repunit(n) == IF n = 0 THEN 0 ELSE 10 * Repunit(n - 1) + 1

DecodeError == [status |-> "JSONDecodeError"]
RecursionError == [status |-> "RecursionError"]
Value(val, end) == [status |-> "value", val |-> val, end |-> end]

\* the scanner: scan_once at index i, inside depth nested arrays
RECURSIVE ScanOnce(_, _, _)
ScanOnce(s, i, depth) ==
    IF i > Len(s) THEN DecodeError
    ELSE IF s[i] = "1"
    THEN LET end == EndOfDigits(s, i) IN Value(<<"num", Repunit(end - i)>>, end)
    ELSE IF s[i] = "["
    THEN IF depth + 1 > RecursionLimit THEN RecursionError
         ELSE LET j == SkipWhitespace(s, i + 1)
              IN IF j > Len(s) THEN DecodeError
                 ELSE IF s[j] = "]" THEN Value(<<"arr">>, j + 1)
                 ELSE LET item == ScanOnce(s, j, depth + 1)
                      IN IF item.status # "value" THEN item
                         ELSE LET k == SkipWhitespace(s, item.end)
                              IN IF k <= Len(s) /\ s[k] = "]"
                                 THEN Value(<<"arr", item.val>>, k + 1)
                                 ELSE DecodeError
    ELSE DecodeError

\* json.loads(s): one value, then nothing but whitespace
json_loads(s) ==
    LET obj == ScanOnce(s, SkipWhitespace(s, 1), 0)
    IN IF obj.status # "value" THEN obj
       ELSE IF SkipWhitespace(s, obj.end) # Len(s) + 1 THEN DecodeError
       ELSE obj

\* the loop of parse_jsonl over lines[i..], entries so far in acc
RECURSIVE ParseLines(_, _, _)
ParseLines(lines, i, acc) ==
    IF i > Len(lines) THEN [status |-> "returned", entries |-> acc]
    ELSE LET line == Strip(lines[i])
         IN IF line = <<>> THEN ParseLines(lines, i + 1, acc)
            ELSE LET r == json_loads(line)
                 IN IF r.status = "value" THEN ParseLines(lines, i + 1, Append(acc, r.val))
                    ELSE IF r.status = "JSONDecodeError" THEN ParseLines(lines, i + 1, acc)
                    ELSE [status |-> "raised", error |-> r.status]

parse_jsonl(text) == ParseLines(SplitLines(text), 1, <<>>)

InitParse ==
    /\ pc = "start"
    /\ LIVE_PRICES = <<>>
    /\ raw \in RawTexts
    /\ parsed = NotRun
    /\ telemetry_raw = <<>>
    /\ compression_raw = <<>>
    /\ token_stats = NotRun
    /\ size_stats = NotRun
    /\ daily_stats = NotRun

\* parsed = parse_jsonl(raw)
ParseJsonl ==
    /\ pc = "start"
    /\ parsed' = parse_jsonl(raw)
    /\ pc' = "parsed"
    /\ UNCHANGED <<LIVE_PRICES, raw, telemetry_raw, compression_raw,
                   token_stats, size_stats, daily_stats>>

NextParse == ParseJsonl

SpecParse == InitParse /\ [][NextParse]_vars

(***************************************************************************)
(* Properties.  The definitions below restate the claims over the input    *)
(* logs themselves, by sets of record positions, without the operators     *)
(* of the model above.                                                     *)
(***************************************************************************)
RECURSIVE SumFcn(_)
SumFcn(f) ==
    IF DOMAIN f = {} THEN 0
    ELSE LET x == CHOOSE y \in DOMAIN f : TRUE
         IN f[x] + SumFcn([z \in DOMAIN f \ {x} |-> f[z]])

SizesReturned == size_stats # NotRun /\ size_stats # None

Has(rec, key) == key \in DOMAIN rec

\* positions of the records that carry a non-zero original_bytes
SizedIdx ==
    {i \in 1..Len(compression_raw) :
        Has(compression_raw[i], "original_bytes")
        /\ compression_raw[i].original_bytes # 0}

\* positions of the compressed samples
SampleIdx ==
    {i \in SizedIdx :
        Has(compression_raw[i], "status") /\ compression_raw[i].status = "compressed"}

OrigAt(i) == compression_raw[i].original_bytes

CompAt(i) ==
    IF Has(compression_raw[i], "compressed_bytes")
    THEN compression_raw[i].compressed_bytes
    ELSE compression_raw[i].original_bytes

\* sum of orig - comp over the positions in S
RECURSIVE SavedOver(_)
SavedOver(S) ==
    IF S = {} THEN 0
    ELSE LET x == CHOOSE y \in S : TRUE
         IN (OrigAt(x) - CompAt(x)) + SavedOver(S \ {x})

EligibleIdx(T) == {i \in SampleIdx : OrigAt(i) >= T}

WastedIdx(T) == {i \in EligibleIdx(T) : 10 * CompAt(i) >= 9 * OrigAt(i)}

Recorded == {size_stats.thresholds[i] : i \in 1..Len(size_stats.thresholds)}

CandidateSet == {256, 512, 768, 1024, 1536, 2048, 3072, 4096}

\* C1: the sweet spot is 0 exactly when no recorded threshold has zero waste;
\* otherwise it is the threshold of a recorded result with wasted = 0 and no
\* recorded result with a smaller threshold has wasted = 0.
C1_SweetSpotMinimalZeroWaste ==
    SizesReturned =>
        LET ss == size_stats.sweet_spot IN
        /\ (ss = 0) <=> (\A r \in Recorded : r.wasted # 0)
        /\ ss # 0 =>
              /\ \E r \in Recorded : r.threshold = ss /\ r.wasted = 0
              /\ \A r \in Recorded : r.threshold < ss => r.wasted # 0

C1_Witness ==
    /\ SizesReturned
    /\ size_stats.sweet_spot # 0
    /\ \E r \in Recorded : r.threshold < size_stats.sweet_spot /\ r.wasted > 0
    /\ \E r \in Recorded : r.threshold > size_stats.sweet_spot /\ r.wasted = 0

\* C2: every recorded threshold T has calls = the number of compressed samples
\* with orig >= T, wasted = the number of those with comp/orig >= 0.9, and
\* saved = the sum of orig - comp over the others; six samples under 256 bytes
\* and six of 1000 -> 990 bytes give wasted = 6 at 256 and no sweet spot.
C2_SweepCounts ==
    SizesReturned =>
        /\ \A r \in Recorded :
              /\ r.calls = Cardinality(EligibleIdx(r.threshold))
              /\ r.wasted = Cardinality(WastedIdx(r.threshold))
              /\ r.saved = SavedOver(EligibleIdx(r.threshold) \ WastedIdx(r.threshold))
        /\ compression_raw = Repeat(SmallGood, 6) \o Repeat(BigWasted, 6) =>
              /\ size_stats.thresholds # <<>>
              /\ size_stats.thresholds[1].threshold = 256
              /\ size_stats.thresholds[1].wasted = 6
              /\ size_stats.sweet_spot = 0

C2_Witness ==
    /\ SizesReturned
    /\ \E r \in Recorded :
          /\ r.wasted > 0
          /\ r.saved > 0
          /\ \E i \in EligibleIdx(r.threshold) : 10 * CompAt(i) = 9 * OrigAt(i)
    /\ \E r \in Recorded : \E i \in EligibleIdx(r.threshold) : OrigAt(i) = r.threshold

\* C3: the recorded thresholds are strictly ascending candidates, each with a
\* non-empty eligible set, and calls never increases with the threshold.
C3_ThresholdsAscending ==
    SizesReturned =>
        LET th == size_stats.thresholds IN
        /\ \A i \in 1..Len(th) : th[i].threshold \in CandidateSet /\ th[i].calls >= 1
        /\ \A i \in 1..(Len(th) - 1) :
              /\ th[i].threshold < th[i + 1].threshold
              /\ th[i].calls >= th[i + 1].calls

C3_Witness ==
    /\ SizesReturned
    /\ Len(size_stats.thresholds) >= 2
    /\ Len(size_stats.thresholds) < Len(ThresholdCandidates)
    /\ \E i \in 1..(Len(size_stats.thresholds) - 1) :
          size_stats.thresholds[i].calls > size_stats.thresholds[i + 1].calls

\* positions of the records that report a non-zero min_threshold
ThresholdIdx ==
    {i \in 1..Len(compression_raw) :
        Has(compression_raw[i], "min_threshold")
        /\ compression_raw[i].min_threshold # 0}

LastThresholdIdx == CHOOSE i \in ThresholdIdx : \A j \in ThresholdIdx : j <= i

\* C6: current_threshold is the min_threshold of the last record in input
\* order that reports a non-zero one, whatever that record's status or size,
\* and 0 when no record reports one.
C6_CurrentThresholdIsLastNonZero ==
    SizesReturned =>
        size_stats.current_threshold =
            IF ThresholdIdx = {} THEN 0
            ELSE compression_raw[LastThresholdIdx].min_threshold

C6_Witness ==
    /\ SizesReturned
    /\ ThresholdIdx # {}
    /\ LastThresholdIdx \notin SampleIdx
    /\ LastThresholdIdx < Len(compression_raw)
    /\ \E j \in ThresholdIdx :
          compression_raw[j].min_threshold # size_stats.current_threshold

ToolTotals == [k \in DOMAIN size_stats.tools |-> size_stats.tools[k].total]

\* C7: with fewer than 10 compressed samples the returned SizeStats has no
\* thresholds, sweet_spot 0 and compression_cost 0 while the size, tool and
\* status aggregates are filled; with 10 or more the sweep runs, recording
\* every candidate that has an eligible sample.
C7_SweepNeedsTenSamples ==
    SizesReturned =>
        /\ Cardinality(SampleIdx) < 10 =>
              /\ size_stats.thresholds = <<>>
              /\ size_stats.sweet_spot = 0
              /\ size_stats.compression_cost = 0
        /\ Len(size_stats.all_sizes) = Cardinality(SizedIdx)
        /\ Len(size_stats.compressed_sizes) = Cardinality(SampleIdx)
        /\ Len(size_stats.passthrough_sizes) = Cardinality(SizedIdx \ SampleIdx)
        /\ SumFcn(size_stats.status_counts) = Cardinality(SizedIdx)
        /\ SumFcn(ToolTotals) = Cardinality(SizedIdx)
        /\ Cardinality(SampleIdx) >= 10 =>
              \A T \in CandidateSet :
                  EligibleIdx(T) # {} <=> (\E r \in Recorded : r.threshold = T)

C7_Witness ==
    /\ SizesReturned
    /\ Cardinality(SampleIdx) = 9
    /\ EligibleIdx(256) # {}
    /\ size_stats.current_threshold \in CandidateSet
    /\ size_stats.thresholds = <<>>
    /\ Cardinality(DOMAIN size_stats.tools) >= 2

TokensReturned == token_stats # NotRun /\ token_stats # None

\* positions of the request records with path "/v1/messages"
MsgIdx ==
    {i \in 1..Len(telemetry_raw) :
        Has(telemetry_raw[i], "path") /\ telemetry_raw[i].path = "/v1/messages"}

\* positions of the /v1/messages records with compression_used true
CompressedIdx ==
    {i \in MsgIdx :
        Has(telemetry_raw[i], "compression_used") /\ telemetry_raw[i].compression_used}

\* C4: total_requests counts the /v1/messages records, each of which is
\* counted in exactly one of compressed_requests and passthrough_requests,
\* according to compression_used, so that the two add up to the total.
C4_RequestsPartition ==
    TokensReturned =>
        /\ token_stats.total_requests =
              token_stats.compressed_requests + token_stats.passthrough_requests
        /\ token_stats.total_requests = Cardinality(MsgIdx)
        /\ token_stats.compressed_requests = Cardinality(CompressedIdx)
        /\ token_stats.passthrough_requests = Cardinality(MsgIdx \ CompressedIdx)

C4_Witness ==
    /\ TokensReturned
    /\ token_stats.compressed_requests >= 1
    /\ token_stats.passthrough_requests >= 1
    /\ Cardinality(MsgIdx) < Len(telemetry_raw)
    /\ \E i \in MsgIdx : ~Has(telemetry_raw[i], "compression_used")

ModelAt(i) ==
    IF Has(telemetry_raw[i], "model") THEN telemetry_raw[i].model ELSE Unknown

SavedAt(i) ==
    IF Has(telemetry_raw[i], "tokens_saved") THEN telemetry_raw[i].tokens_saved ELSE 0

\* sum of tokens_saved over the positions in S
RECURSIVE TokensSavedOver(_)
TokensSavedOver(S) ==
    IF S = {} THEN 0
    ELSE LET x == CHOOSE y \in S : TRUE IN SavedAt(x) + TokensSavedOver(S \ {x})

ModelSavedTokens == [k \in DOMAIN token_stats.models |-> token_stats.models[k].saved_tokens]

C5_PerModelMoneyOverMessages ==
    TokensReturned =>
        /\ DOMAIN token_stats.models = {ModelAt(i) : i \in MsgIdx}
        /\ \A k \in DOMAIN token_stats.models :
              token_stats.models[k].money_saved =
                  Money(TokensSavedOver({i \in MsgIdx : ModelAt(i) = k}), get_price(k))
        /\ token_stats.total_saved_tokens = TokensSavedOver(CompressedIdx)
        /\ SumFcn(ModelSavedTokens) = TokensSavedOver(MsgIdx)

DailyReturned == daily_stats # NotRun /\ daily_stats # None

\* positions of the /v1/messages records with a non-empty timestamp
StampedIdx ==
    {i \in MsgIdx :
        Has(telemetry_raw[i], "timestamp") /\ telemetry_raw[i].timestamp # <<>>}

\* the calendar date is the leading part of the timestamp
CalendarDate(i) == Head(telemetry_raw[i].timestamp)

Dates == {CalendarDate(i) : i \in StampedIdx}

RECURSIVE OrigTokensOver(_)
OrigTokensOver(S) ==
    IF S = {} THEN 0
    ELSE LET x == CHOOSE y \in S : TRUE
         IN (IF Has(telemetry_raw[x], "original_tokens")
             THEN telemetry_raw[x].original_tokens ELSE 0) + OrigTokensOver(S \ {x})

DateTotal(d) == OrigTokensOver({i \in StampedIdx : CalendarDate(i) = d})

ActiveDates == {d \in Dates : DateTotal(d) > 0}

\* C9: the result is absent exactly when no date has a total > 0; otherwise
\* daily_values holds the totals of the dates with a total > 0 and no other,
\* in ascending order, active_days is its length, and min_tokens_per_day and
\* max_tokens_per_day are its first and last elements.
C9_DailyActiveDays ==
    daily_stats # NotRun =>
        /\ (daily_stats = None) <=> (ActiveDates = {})
        /\ daily_stats # None =>
              LET dv == daily_stats.daily_values IN
              /\ daily_stats.active_days = Len(dv)
              /\ Len(dv) = Cardinality(ActiveDates)
              /\ \A i \in 1..Len(dv) :
                    Cardinality({j \in 1..Len(dv) : dv[j] = dv[i]}) =
                    Cardinality({d \in ActiveDates : DateTotal(d) = dv[i]})
              /\ \A i \in 1..(Len(dv) - 1) : dv[i] <= dv[i + 1]
              /\ daily_stats.min_tokens_per_day = dv[1]
              /\ daily_stats.max_tokens_per_day = dv[Len(dv)]

C9_Witness ==
    /\ DailyReturned
    /\ Dates \ ActiveDates # {}
    /\ \E i, j \in StampedIdx :
          /\ i # j
          /\ CalendarDate(i) = CalendarDate(j)
          /\ telemetry_raw[i].timestamp # telemetry_raw[j].timestamp
          /\ daily_stats.daily_values = <<DateTotal(CalendarDate(i))>>

\* C10: analyze_tokens returns absent exactly when no record has path
\* "/v1/messages" and analyze_sizes returns absent exactly when the input is
\* empty or no record has a non-zero original_bytes; otherwise each returns
\* its stats object.
C10_AbsentIffNothingToAnalyze ==
    /\ token_stats # NotRun =>
          /\ (token_stats = None) <=> (MsgIdx = {})
          /\ token_stats # None => "total_requests" \in DOMAIN token_stats
    /\ size_stats # NotRun =>
          /\ (size_stats = None) <=> (compression_raw = <<>> \/ SizedIdx = {})
          /\ size_stats # None => "all_sizes" \in DOMAIN size_stats

C10_Witness ==
    /\ token_stats = None
    /\ size_stats = None
    /\ telemetry_raw # <<>>

\* the positions in the log of the compressed samples, in input order
SamplePositions ==
    LET IsSamplePosition(i) == i \in SampleIdx
    IN SelectSeq([i \in 1..Len(compression_raw) |-> i], IsSamplePosition)

\* C11: ratios and compressed_sizes have the same length and, position by
\* position, hold the comp/orig ratio and the original_bytes of the same
\* compressed record, in input order; and len(all_sizes) = len(compressed_sizes)
\* + len(passthrough_sizes) = the sum of status_counts = the sum of the
\* per-tool totals.
C11_ParallelListsAligned ==
    SizesReturned =>
        LET at == SamplePositions IN
        /\ Len(size_stats.ratios) = Len(size_stats.compressed_sizes)
        /\ Len(size_stats.compressed_sizes) = Len(at)
        /\ \A k \in 1..Len(size_stats.compressed_sizes) :
              /\ size_stats.compressed_sizes[k] = OrigAt(at[k])
              /\ k <= Len(size_stats.ratios) =>
                    size_stats.ratios[k][1] * OrigAt(at[k]) =
                        CompAt(at[k]) * size_stats.ratios[k][2]
        /\ Len(size_stats.all_sizes) =
              Len(size_stats.compressed_sizes) + Len(size_stats.passthrough_sizes)
        /\ Len(size_stats.all_sizes) = SumFcn(size_stats.status_counts)
        /\ Len(size_stats.all_sizes) = SumFcn(ToolTotals)

C11_Witness ==
    /\ SizesReturned
    /\ Len(size_stats.passthrough_sizes) >= 1
    /\ Cardinality(SizedIdx) < Len(compression_raw)
    /\ Cardinality(DOMAIN size_stats.tools) >= 2
    /\ Cardinality(DOMAIN size_stats.status_counts) >= 2
    /\ \E j, k \in 1..Len(size_stats.ratios) :
          /\ j < k
          /\ size_stats.compressed_sizes[j] # size_stats.compressed_sizes[k]
          /\ size_stats.ratios[j][1] * size_stats.ratios[k][2] #
                size_stats.ratios[k][1] * size_stats.ratios[j][2]

\* C12: the wasted counts of the recorded thresholds never increase with the
\* threshold; when a sweet spot is found every recorded threshold above it has
\* wasted = 0 and every recorded threshold below it has wasted >= 1.
C12_WastedNonIncreasing ==
    SizesReturned =>
        LET th == size_stats.thresholds
            ss == size_stats.sweet_spot
        IN /\ \A i \in 1..(Len(th) - 1) : th[i].wasted >= th[i + 1].wasted
           /\ ss # 0 =>
                 \A i \in 1..Len(th) :
                    /\ th[i].threshold > ss => th[i].wasted = 0
                    /\ th[i].threshold < ss => th[i].wasted >= 1

C12_Witness ==
    /\ SizesReturned
    /\ size_stats.sweet_spot # 0
    /\ \E i, j, k \in 1..Len(size_stats.thresholds) :
          /\ i < j /\ j < k
          /\ size_stats.thresholds[i].wasted > size_stats.thresholds[j].wasted
          /\ size_stats.thresholds[j].wasted > size_stats.thresholds[k].wasted
          /\ size_stats.thresholds[j].threshold < size_stats.sweet_spot
          /\ size_stats.thresholds[k].threshold > size_stats.sweet_spot

\* the lines of raw: the maximal runs of characters other than the newline
LineStarts ==
    {i \in 1..Len(raw) : raw[i] # "\n" /\ (i = 1 \/ raw[i - 1] = "\n")}

LineFrom(i) ==
    LET end == CHOOSE j \in i..Len(raw) :
                  /\ \A h \in i..j : raw[h] # "\n"
                  /\ (j = Len(raw) \/ raw[j + 1] = "\n")
    IN SubSeq(raw, i, end)

Decodes(line) == json_loads(Strip(line)).status = "value"

DecodingStarts == {i \in LineStarts : Strip(LineFrom(i)) # <<>> /\ Decodes(LineFrom(i))}

\* the k-th smallest element of S
RECURSIVE Nth(_, _)
Nth(S, k) ==
    LET m == CHOOSE x \in S : \A y \in S : x <= y
    IN IF k = 1 THEN m ELSE Nth(S \ {m}, k - 1)

\* C8: parse_jsonl never fails for the whole batch and returns exactly the
\* decoded values of the non-blank lines that decode, in input order.
C8_ParseNeverFails ==
    pc = "parsed" =>
        /\ parsed.status = "returned"
        /\ Len(parsed.entries) = Cardinality(DecodingStarts)
        /\ \A k \in 1..Len(parsed.entries) :
              parsed.entries[k] = json_loads(Strip(LineFrom(Nth(DecodingStarts, k)))).val

====
